---- MODULE Spec2Model ----
(***************************************************************************)
(* Word-search puzzle generator (Eitan-Alperstein/WordSearch).             *)
(*                                                                         *)
(* Three state machines share this module:                                 *)
(*   SpecGrid  the puzzle builder: WordSearchGenerator.generatePuzzle      *)
(*             (part_001 / part_002) and createPuzzle (main.js), one       *)
(*             placement attempt per step, then the fill loop;             *)
(*   SpecWL    the 'generate-word-list' handler (part_001);                *)
(*   SpecCP    the 'create-puzzles' handler (main.js).                     *)
(*                                                                         *)
(* Strings are sequences of one-character strings, so that trim, split,    *)
(* toUpperCase, toLowerCase and the regular expressions are computed.      *)
(***************************************************************************)
EXTENDS Integers, Sequences, FiniteSets, TLC

VARIABLES
    \* ---- puzzle builder (generatePuzzle / createPuzzle)
    variant,        \* which builder runs: "generatePuzzle" or "createPuzzle"
    words,          \* the builder's argument: a sequence of strings
    wi,             \* index (0-based) of the word the for-of loop is at
    gridWord,       \* the normalized word being placed
    attempt,        \* the attempt counter of the inner for loop
    placed,         \* the loop's `placed` flag
    grid,           \* grid[row][col], "" for an empty cell
    placedWords,    \* sequence of [word, gridWord, positions]
    fate,           \* history: "blank", "placed" or "dropped", one per word gone through
    pc,             \* "word" | "attempt" | "done" (and "idle" outside SpecGrid)
    \* ---- 'generate-word-list' handler
    numPuzzles,     \* argument
    wordsPerPuzzle, \* argument
    templateOk,     \* whether readFileSync of the prompt template succeeds
    puzzleIndex,    \* the for loop's `i`
    allocAttempt,   \* the while loop's `attempt`
    puzzleWords,    \* the words kept from the last parsed response
    lastError,      \* [kind, attempt, got] standing for the message string
    allWords,       \* the Set of used words, in insertion order
    puzzles,        \* accepted word lists, one per puzzle
    wordList,       \* the string built from the accepted lists
    events,         \* what was sent on 'ollama-wordlist-stream', in order
    result,         \* the handler's return value ([pending |-> TRUE] before)
    prompt,         \* the usedWords text of the request in flight
    wlpc,           \* "start" | "for" | "while" | "await" | "done" ("idle" elsewhere)
    calls,          \* history: source calls made for the current puzzle
    outcomes,       \* history: how the calls for the current puzzle ended
    attempted,      \* history: puzzle indices whose allocation began
    pending,        \* source calls in flight, each <<puzzle index, attempt>>
    \* ---- 'create-puzzles' handler (main.js)
    subthemes,      \* argument: the list of topics
    senderAlive,    \* event.sender && !event.sender.isDestroyed()
    cpTemplateOk,   \* whether readFileSync of the prompt template succeeds
    topicIndex,     \* the for loop's `i`
    builtPuzzles,   \* the handler's local `puzzles`
    successCount,
    skipCount,
    generatedPuzzles, \* the module-level variable read by 'create-pdf'
    progressSent,   \* the 'puzzle-progress' events sent, in order
    cpResult,       \* the handler's return value ([pending |-> TRUE] before)
    inFlight,       \* topic indices whose source call is pending
    called,         \* history: topic indices in the order their call was issued
    topicOutcomes,  \* history: "built" or "skipped", one per handled topic
    pdfResult,      \* the last 'create-pdf' invocation's return value
    cppc            \* "start" | "for" | "await" | "done" | "thrown" ("idle" elsewhere)

gridVars == <<variant, words, wi, gridWord, attempt, placed, grid, placedWords,
              fate, pc>>

wlVars == <<numPuzzles, wordsPerPuzzle, templateOk, puzzleIndex, allocAttempt, puzzleWords,
            lastError, allWords, puzzles, wordList, events, result, prompt, wlpc,
            calls, outcomes, attempted, pending>>

cpVars == <<subthemes, senderAlive, cpTemplateOk, topicIndex, builtPuzzles, successCount,
            skipCount, generatedPuzzles, progressSent, cpResult, inFlight, called,
            topicOutcomes, pdfResult, cppc>>

vars == <<gridVars, wlVars, cpVars>>

NoError == [kind |-> "", attempt |-> 0, got |-> 0]

Pending == [pending |-> TRUE]

\* the handler is not running
IdleWL ==
    /\ numPuzzles = 0
    /\ wordsPerPuzzle = 0
    /\ templateOk = TRUE
    /\ puzzleIndex = 0
    /\ allocAttempt = 0
    /\ puzzleWords = <<>>
    /\ lastError = NoError
    /\ allWords = <<>>
    /\ puzzles = <<>>
    /\ wordList = <<>>
    /\ events = <<>>
    /\ result = Pending
    /\ prompt = <<>>
    /\ wlpc = "idle"
    /\ calls = 0
    /\ outcomes = {}
    /\ attempted = {}
    /\ pending = {}

\* the handler is not running
IdleCP ==
    /\ subthemes = <<>>
    /\ senderAlive = TRUE
    /\ cpTemplateOk = TRUE
    /\ topicIndex = 0
    /\ builtPuzzles = <<>>
    /\ successCount = 0
    /\ skipCount = 0
    /\ generatedPuzzles = <<>>
    /\ progressSent = <<>>
    /\ cpResult = Pending
    /\ inFlight = {}
    /\ called = <<>>
    /\ topicOutcomes = <<>>
    /\ pdfResult = Pending
    /\ cppc = "idle"

(***************************************************************************)
(* Bounds.  gridSize is 15 and maxAttempts 100 in the source; the model    *)
(* runs the same code on a smaller grid with a smaller attempt budget.     *)
(***************************************************************************)
gridSize == 3

maxAttempts == 2

FillSeeds == 2

(***************************************************************************)
(* Characters and JavaScript string functions.                             *)
(***************************************************************************)
letters == <<"A","B","C","D","E","F","G","H","I","J","K","L","M",
             "N","O","P","Q","R","S","T","U","V","W","X","Y","Z">>

lowerLetters == <<"a","b","c","d","e","f","g","h","i","j","k","l","m",
                  "n","o","p","q","r","s","t","u","v","w","x","y","z">>

Range(s) == {s[k] : k \in DOMAIN s}

UpperSet == Range(letters)

LowerSet == Range(lowerLetters)

IndexOf(s, ch) == CHOOSE k \in DOMAIN s : s[k] = ch

IsSpace(ch) == ch \in {" ", "\t", "\n"}

upperChar(ch) == IF ch \in LowerSet THEN letters[IndexOf(lowerLetters, ch)] ELSE ch

lowerChar(ch) == IF ch \in UpperSet THEN lowerLetters[IndexOf(letters, ch)] ELSE ch

toUpperCase(s) == [k \in DOMAIN s |-> upperChar(s[k])]

toLowerCase(s) == [k \in DOMAIN s |-> lowerChar(s[k])]

RECURSIVE trimStart(_)
trimStart(s) == IF s # <<>> /\ IsSpace(Head(s)) THEN trimStart(Tail(s)) ELSE s

RECURSIVE trimEnd(_)
trimEnd(s) ==
    IF s # <<>> /\ IsSpace(s[Len(s)]) THEN trimEnd(SubSeq(s, 1, Len(s) - 1)) ELSE s

trim(s) == trimEnd(trimStart(s))

\* s.replace(/\s+/g, '')
stripWhitespace(s) == SelectSeq(s, LAMBDA ch : ~IsSpace(ch))

(***************************************************************************)
(* The grid placer.                                                        *)
(***************************************************************************)
Idx == 0 .. (gridSize - 1)

directionsWithLeft == << <<0, 1>>, <<1, 0>>, <<1, 1>>, <<-1, 0>>, <<-1, 1>>, <<0, -1>> >>

directions == << <<0, 1>>, <<1, 0>>, <<1, 1>>, <<-1, 0>>, <<-1, 1>> >>

createEmptyGrid == [r \in Idx |-> [c \in Idx |-> ""]]

InGrid(r, c) == r >= 0 /\ r < gridSize /\ c >= 0 /\ c < gridSize

RECURSIVE canPlaceWordFrom(_, _, _, _, _, _)
canPlaceWordFrom(g, word, row, col, direction, i) ==
    IF i >= Len(word) THEN TRUE
    ELSE LET newRow == row + i * direction[1]
             newCol == col + i * direction[2]
         IN  IF newRow < 0 \/ newRow >= gridSize \/ newCol < 0 \/ newCol >= gridSize
             THEN FALSE
             ELSE IF g[newRow][newCol] # "" /\ g[newRow][newCol] # word[i + 1]
                  THEN FALSE
                  ELSE canPlaceWordFrom(g, word, row, col, direction, i + 1)

\* mutant of canPlaceWord: the collision check is missing
RECURSIVE canPlaceWordNoCollisionFrom(_, _, _, _, _, _)
canPlaceWordNoCollisionFrom(g, word, row, col, direction, i) ==
    IF i >= Len(word) THEN TRUE
    ELSE LET newRow == row + i * direction[1]
             newCol == col + i * direction[2]
         IN  IF newRow < 0 \/ newRow >= gridSize \/ newCol < 0 \/ newCol >= gridSize
             THEN FALSE
             ELSE canPlaceWordNoCollisionFrom(g, word, row, col, direction, i + 1)

canPlaceWordNoCollision(g, word, row, col, direction) ==
    canPlaceWordNoCollisionFrom(g, word, row, col, direction, 0)

\* mutant of canPlaceWord: only the start cell is checked against the grid's
\* bounds; cells beyond the border are taken to fit
RECURSIVE canPlaceWordStartOnlyFrom(_, _, _, _, _, _)
canPlaceWordStartOnlyFrom(g, word, row, col, direction, i) ==
    IF i >= Len(word) THEN TRUE
    ELSE LET newRow == row + i * direction[1]
             newCol == col + i * direction[2]
         IN  IF ~InGrid(newRow, newCol)
             THEN i > 0 /\ canPlaceWordStartOnlyFrom(g, word, row, col, direction, i + 1)
             ELSE IF g[newRow][newCol] # "" /\ g[newRow][newCol] # word[i + 1]
                  THEN FALSE
                  ELSE canPlaceWordStartOnlyFrom(g, word, row, col, direction, i + 1)

canPlaceWordStartOnly(g, word, row, col, direction) ==
    canPlaceWordStartOnlyFrom(g, word, row, col, direction, 0)

canPlaceWord(g, word, row, col, direction) ==
    canPlaceWordFrom(g, word, row, col, direction, 0)

\* placeWord's writes.  A write outside the grid cannot happen after
\* canPlaceWord accepted; the operator is total and leaves the grid alone there.
RECURSIVE placeWordFrom(_, _, _, _, _, _)
placeWordFrom(g, word, row, col, direction, i) ==
    IF i >= Len(word) THEN g
    ELSE LET newRow == row + i * direction[1]
             newCol == col + i * direction[2]
             g2 == IF InGrid(newRow, newCol)
                   THEN [g EXCEPT ![newRow][newCol] = word[i + 1]]
                   ELSE g
         IN  placeWordFrom(g2, word, row, col, direction, i + 1)

placeWordGrid(g, word, row, col, direction) ==
    placeWordFrom(g, word, row, col, direction, 0)

\* placeWord's return value
placeWordPositions(word, row, col, direction) ==
    [k \in 1 .. Len(word) |->
        <<row + (k - 1) * direction[1], col + (k - 1) * direction[2]>>]

\* mutant of the attempt: check and write in one loop, stopping at the first
\* cell that does not fit (the cells before it are already written)
RECURSIVE writeUntilConflict(_, _, _, _, _, _)
writeUntilConflict(g, word, row, col, direction, i) ==
    IF i >= Len(word) THEN g
    ELSE LET newRow == row + i * direction[1]
             newCol == col + i * direction[2]
         IN  IF ~InGrid(newRow, newCol) THEN g
             ELSE IF g[newRow][newCol] # "" /\ g[newRow][newCol] # word[i + 1] THEN g
             ELSE writeUntilConflict([g EXCEPT ![newRow][newCol] = word[i + 1]],
                                     word, row, col, direction, i + 1)

attemptGridPartial(g, word, row, col, direction) ==
    writeUntilConflict(g, word, row, col, direction, 0)

\* the grid after one attempt of the inner loop (if canPlaceWord ... placeWord)
attemptGrid(g, word, row, col, direction) ==
    IF canPlaceWord(g, word, row, col, direction)
    THEN placeWordGrid(g, word, row, col, direction)
    ELSE g

(***************************************************************************)
(* The fill loop.  Math.random is a seeded generator: the letters of one   *)
(* fill pass are a function of the seed and the cell.                      *)
(***************************************************************************)
randomLetter(seed, r, c) ==
    letters[(((r * gridSize + c) * (seed + 1) + seed) % Len(letters)) + 1]

fillGridOverwrite(g, seed) ==
    [r \in Idx |-> [c \in Idx |-> randomLetter(seed, r, c)]]

fillGrid(g, seed) ==
    [r \in Idx |-> [c \in Idx |->
        IF g[r][c] = "" THEN randomLetter(seed, r, c) ELSE g[r][c]]]

(***************************************************************************)
(* Inputs of the builder.                                                  *)
(***************************************************************************)
Vocabulary ==
    { <<"c","a","t">>, <<"C","A","T">>, <<"d","o","g">>, <<" ","t"," ","a">>,
      <<"a","-","1">>, <<" "," ">>, <<"g","o","o","d">> }

\* the literals of the create-puzzles filter (main.js line 96)
minWordLen == 3

maxWordLen == 15

\* /^[a-zA-Z]+$/.test(w)
isAlphabetic(w) == w # <<>> /\ \A k \in DOMAIN w : w[k] \in UpperSet \cup LowerSet

\* mutant of isValidWord: the alphabetic test is missing
isValidWordAnyChars(w) ==
    IF \E k \in DOMAIN w : w[k] = " " THEN FALSE
    ELSE Len(w) >= minWordLen /\ Len(w) <= maxWordLen

\* the filter callback of create-puzzles
isValidWord(w) ==
    IF \E k \in DOMAIN w : w[k] = " " THEN FALSE
    ELSE isAlphabetic(w) /\ Len(w) >= minWordLen /\ Len(w) <= maxWordLen

\* generatePuzzle takes any list of strings
AnyWordLists ==
    {<<>>} \cup {<<w>> : w \in Vocabulary}
           \cup {<<w1, w2>> : w1 \in Vocabulary, w2 \in Vocabulary}

\* createPuzzle is only called with what the create-puzzles filter and its
\* Set (exact-match) dedupe let through
FilteredWordLists ==
    LET V == {w \in Vocabulary : isValidWord(w)}
    IN  {<<w>> : w \in V} \cup {ws \in {<<w1, w2>> : w1 \in V, w2 \in V} : ws[1] # ws[2]}

\* gridWord as each builder computes it
normalize(v, word) ==
    IF v = "generatePuzzle" THEN toUpperCase(stripWhitespace(trim(word)))
    ELSE toUpperCase(word)

\* the `word` field stored in placedWords
originalWord(v, word) == IF v = "generatePuzzle" THEN trim(word) ELSE word

\* mutant of attemptLoopCond: the loop does not stop at the first accepted attempt
attemptLoopCondNoStop(att, wasPlaced) == att < maxAttempts

\* the inner loop's condition: attempt < maxAttempts && !placed
attemptLoopCond(att, wasPlaced) == att < maxAttempts /\ ~wasPlaced

\* mutant of nextWord: a word that could not be placed ends the word loop
nextWordStopOnDrop(idx, n, wasPlaced) == IF wasPlaced THEN idx + 1 ELSE n

\* for (const word of words): placed or not, the loop goes on with the next word
nextWord(idx, n, wasPlaced) == idx + 1

InitGrid ==
    /\ variant \in {"generatePuzzle", "createPuzzle"}
    /\ words \in (IF variant = "generatePuzzle" THEN AnyWordLists ELSE FilteredWordLists)
    /\ wi = 0
    /\ gridWord = <<>>
    /\ attempt = 0
    /\ placed = FALSE
    /\ grid = createEmptyGrid
    /\ placedWords = <<>>
    /\ fate = <<>>
    /\ pc = "word"
    /\ IdleWL
    /\ IdleCP

\* for (const word of words): gridWord is empty, `continue`
SkipWord ==
    /\ pc = "word"
    /\ wi < Len(words)
    /\ variant = "generatePuzzle"
    /\ normalize(variant, words[wi + 1]) = <<>>
    /\ wi' = wi + 1
    /\ fate' = Append(fate, "blank")
    /\ UNCHANGED <<variant, words, gridWord, attempt, placed, grid, placedWords, pc>>
    /\ UNCHANGED <<wlVars, cpVars>>

\* for (const word of words): let placed = false; attempt = 0
BeginWord ==
    /\ pc = "word"
    /\ wi < Len(words)
    /\ (variant = "generatePuzzle" => normalize(variant, words[wi + 1]) # <<>>)
    /\ gridWord' = normalize(variant, words[wi + 1])
    /\ attempt' = 0
    /\ placed' = FALSE
    /\ pc' = "attempt"
    /\ UNCHANGED <<variant, words, wi, grid, placedWords, fate>>
    /\ UNCHANGED <<wlVars, cpVars>>

\* one iteration of the attempt loop: draw direction, row, col; place if it fits
Attempt ==
    /\ pc = "attempt"
    /\ attemptLoopCond(attempt, placed)
    /\ \E d \in DOMAIN directions, row \in Idx, col \in Idx :
         LET direction == directions[d]
             ok == canPlaceWord(grid, gridWord, row, col, direction)
         IN  /\ grid' = attemptGrid(grid, gridWord, row, col, direction)
             /\ placedWords' =
                  IF ok
                  THEN Append(placedWords,
                              [word |-> originalWord(variant, words[wi + 1]),
                               gridWord |-> gridWord,
                               positions |-> placeWordPositions(gridWord, row, col, direction)])
                  ELSE placedWords
             /\ placed' = ok
    /\ attempt' = attempt + 1
    /\ UNCHANGED <<variant, words, wi, gridWord, fate, pc>>
    /\ UNCHANGED <<wlVars, cpVars>>

\* the attempt loop ends: the word was placed or the budget is spent
EndWord ==
    /\ pc = "attempt"
    /\ ~attemptLoopCond(attempt, placed)
    /\ wi' = nextWord(wi, Len(words), placed)
    /\ fate' = Append(fate, IF placed THEN "placed" ELSE "dropped")
    /\ pc' = "word"
    /\ UNCHANGED <<variant, words, gridWord, attempt, placed, grid, placedWords>>
    /\ UNCHANGED <<wlVars, cpVars>>

\* all words attempted: fill the empty cells and return { grid, placedWords }
Fill ==
    /\ pc = "word"
    /\ wi = Len(words)
    /\ \E seed \in 0 .. (FillSeeds - 1) : grid' = fillGrid(grid, seed)
    /\ pc' = "done"
    /\ UNCHANGED <<variant, words, wi, gridWord, attempt, placed, placedWords, fate>>
    /\ UNCHANGED <<wlVars, cpVars>>

NextGrid == SkipWord \/ BeginWord \/ Attempt \/ EndWord \/ Fill

SpecGrid == InitGrid /\ [][NextGrid]_vars

(***************************************************************************)
(* The 'generate-word-list' handler (part_001, lines 13-88).               *)
(***************************************************************************)
MaxPuzzles == 3

MaxWordsPerPuzzle == 2

maxAllocAttempts == 10

\* the builder is not running
IdleGrid ==
    /\ variant = "none"
    /\ words = <<>>
    /\ wi = 0
    /\ gridWord = <<>>
    /\ attempt = 0
    /\ placed = FALSE
    /\ grid = createEmptyGrid
    /\ placedWords = <<>>
    /\ fate = <<>>
    /\ pc = "idle"

\* s.split(sep) for a one-character separator: the pieces between the
\* separators, in order (one piece more than there are separators)
split(s, sep) ==
    LET cuts == {0} \cup {k \in DOMAIN s : s[k] = sep} \cup {Len(s) + 1}
        cut(j) == CHOOSE p \in cuts : Cardinality({q \in cuts : q < p}) = j - 1
    IN  [j \in 1 .. (Cardinality(cuts) - 1) |-> SubSeq(s, cut(j) + 1, cut(j + 1) - 1)]

\* parts.join(sep)
RECURSIVE join(_, _)
join(parts, sep) ==
    IF parts = <<>> THEN <<>>
    ELSE IF Len(parts) = 1 THEN parts[1]
    ELSE parts[1] \o sep \o join(Tail(parts), sep)

includes(s, ch) == \E k \in DOMAIN s : s[k] = ch

\* lines.find(l => l.includes(',')): the lines that qualify, in order
linesWithComma(lines) == SelectSeq(lines, LAMBDA l : includes(l, ","))

\* lines 58-59: the first line holding a comma, or the whole trimmed response
pickLine(response) ==
    LET found == linesWithComma(split(trim(response), "\n"))
    IN  IF found # <<>> THEN found[1] ELSE trim(response)

\* line 60: split on commas, trim, drop empty tokens
tokens(line) ==
    LET parts == split(line, ",")
        trimmed == [k \in DOMAIN parts |-> trim(parts[k])]
    IN  SelectSeq(trimmed, LAMBDA w : Len(w) > 0)

\* allWords.has(w)
has(used, w) == \E k \in DOMAIN used : used[k] = w

\* mutant of removeUsed: the token is looked up as written, not lowercased
removeUsedExact(ws, used) == SelectSeq(ws, LAMBDA w : ~has(used, w))

\* line 62: drop the words already used
removeUsed(ws, used) == SelectSeq(ws, LAMBDA w : ~has(used, toLowerCase(w)))

\* line 64: [...new Set(ws.map(w => w.toLowerCase()))], first occurrences kept in order
RECURSIVE uniqueLower(_, _)
uniqueLower(ws, out) ==
    IF ws = <<>> THEN out
    ELSE IF has(out, toLowerCase(Head(ws)))
         THEN uniqueLower(Tail(ws), out)
         ELSE uniqueLower(Tail(ws), Append(out, toLowerCase(Head(ws))))

\* lines 65-67
truncate(ws, n) == IF Len(ws) > n THEN SubSeq(ws, 1, n) ELSE ws

\* mutant of parseResponse: the list is cut to n tokens before it is filtered
parseResponseTruncateFirst(response, used, n) ==
    uniqueLower(removeUsed(truncate(tokens(pickLine(response)), n), used), <<>>)

\* lines 58-67: puzzleWords after one response
parseResponse(response, used, n) ==
    truncate(uniqueLower(removeUsed(tokens(pickLine(response)), used), <<>>), n)

\* mutant of whileCond: one attempt too many
whileCondOffByOne(att, ws, n) == att <= maxAllocAttempts /\ Len(ws) # n

\* line 26
whileCond(att, ws, n) == att < maxAllocAttempts /\ Len(ws) # n

\* mutant of addAll: the accepted words are not recorded
addNone(used, ws) == used

\* mutant of addAll: the set is started afresh with the latest list
addLatestOnly(used, ws) == [k \in DOMAIN ws |-> toLowerCase(ws[k])]

\* the Set after ws.forEach(w => allWords.add(w.toLowerCase()))
RECURSIVE addAll(_, _)
addAll(used, ws) ==
    IF ws = <<>> THEN used
    ELSE addAll(IF has(used, toLowerCase(Head(ws))) THEN used
                ELSE Append(used, toLowerCase(Head(ws))),
                Tail(ws))

\* mutant of chunkText: the separator is put after the list
chunkTextSeparatorLast(n, ws) == join(ws, <<",">>) \o <<"|">>

\* lines 79-80: (i > 0 ? separator : '') + puzzleWords.join(',')
chunkText(n, ws) == (IF n > 0 THEN <<"|">> ELSE <<>>) \o join(ws, <<",">>)

\* line 74 / line 86: the value returned on failure
exhaustedError(n, err) == [kind |-> "exhausted", puzzle |-> n + 1, lastError |-> err]

\* mutant of exhaustedReturn: the partial word list is handed back with the failure
exhaustedReturnWithWords(n, err, wl) ==
    [success |-> FALSE, error |-> exhaustedError(n, err), wordList |-> wl]

exhaustedReturn(n, err, wl) == [success |-> FALSE, error |-> exhaustedError(n, err)]

\* mutant of Event: a failure is announced as 'end'
EventErrorAsEnd(type, data, error) ==
    [type |-> IF type = "error" THEN "end" ELSE type, data |-> data, error |-> error]

\* event.sender.send('ollama-wordlist-stream', { type, data, error })
Event(type, data, error) == [type |-> type, data |-> data, error |-> error]

NoData == <<>>

\* what the word source may answer
\* "cat, dog"
respCatDog == <<"c","a","t",","," ","d","o","g">>

\* "Cat,DOG,emu"
respCaseVariants == <<"C","a","t",",","D","O","G",",","e","m","u">>

\* "Sure:\n owl , OWL,, yak \nbye"
respPreamble == <<"S","u","r","e",":","\n"," ","o","w","l"," ",","," ","O","W","L",",",","," ","y","a","k"," ","\n","b","y","e">>

\* "emu"
respOneWord == <<"e","m","u">>

\* "dog\nemu"
respTwoLines == <<"d","o","g","\n","e","m","u">>

\* "(empty text)"
respEmpty == <<>>

\* "emu,fox "
respEmuFox == <<"e","m","u",",","f","o","x"," ">>

Responses == {respCatDog, respCaseVariants, respPreamble, respOneWord, respTwoLines, respEmpty, respEmuFox}


\* lines 41-46: ollama.generate(...) is called
startCall(flight, id) == flight \cup {id}

\* mutant of endCall: the handler goes on while the call is still pending
endCallNothing(flight, id) == flight

\* line 49: `await result` returns or throws once the call has settled
endCall(flight, id) == flight \ {id}

InitWL ==
    /\ numPuzzles \in 0 .. MaxPuzzles
    /\ wordsPerPuzzle \in 1 .. MaxWordsPerPuzzle
    /\ templateOk \in BOOLEAN
    /\ puzzleIndex = 0
    /\ allocAttempt = 0
    /\ puzzleWords = <<>>
    /\ lastError = NoError
    /\ allWords = <<>>
    /\ puzzles = <<>>
    /\ wordList = <<>>
    /\ events = <<>>
    /\ result = Pending
    /\ prompt = <<>>
    /\ wlpc = "start"
    /\ calls = 0
    /\ outcomes = {}
    /\ attempted = {}
    /\ pending = {}
    /\ IdleGrid
    /\ IdleCP

\* lines 15-21: read the template, reset the state, send 'start'
Start ==
    /\ wlpc = "start"
    /\ templateOk
    /\ events' = Append(events, Event("start", NoData, NoError))
    /\ wlpc' = "for"
    /\ UNCHANGED <<numPuzzles, wordsPerPuzzle, templateOk, puzzleIndex, allocAttempt, puzzleWords,
                   lastError, allWords, puzzles, wordList, result, prompt, calls,
                   outcomes, attempted, pending>>
    /\ UNCHANGED <<gridVars, cpVars>>

\* line 16 throws: the outer catch (lines 84-87) sends 'error' and returns
StartFails ==
    /\ wlpc = "start"
    /\ ~templateOk
    /\ events' = Append(events, Event("error", NoData, [NoError EXCEPT !.kind = "exception"]))
    /\ result' = [success |-> FALSE, error |-> [NoError EXCEPT !.kind = "exception"]]
    /\ wlpc' = "done"
    /\ UNCHANGED <<numPuzzles, wordsPerPuzzle, templateOk, puzzleIndex, allocAttempt, puzzleWords,
                   lastError, allWords, puzzles, wordList, prompt, calls, outcomes,
                   attempted, pending>>
    /\ UNCHANGED <<gridVars, cpVars>>

\* lines 22-25: the next puzzle begins
BeginPuzzle ==
    /\ wlpc = "for"
    /\ puzzleIndex < numPuzzles
    /\ allocAttempt' = 0
    /\ puzzleWords' = <<>>
    /\ lastError' = NoError
    /\ calls' = 0
    /\ outcomes' = {}
    /\ attempted' = attempted \cup {puzzleIndex}
    /\ wlpc' = "while"
    /\ UNCHANGED <<numPuzzles, wordsPerPuzzle, templateOk, puzzleIndex, allWords, puzzles, wordList,
                   events, result, prompt, pending>>
    /\ UNCHANGED <<gridVars, cpVars>>

\* lines 26-47: one more attempt: build the prompt and call the source
CallSource ==
    /\ wlpc = "while"
    /\ whileCond(allocAttempt, puzzleWords, wordsPerPuzzle)
    /\ allocAttempt' = allocAttempt + 1
    /\ prompt' = join(allWords, <<",", " ">>)
    /\ calls' = calls + 1
    /\ pending' = startCall(pending, <<puzzleIndex, allocAttempt + 1>>)
    /\ wlpc' = "await"
    /\ UNCHANGED <<numPuzzles, wordsPerPuzzle, templateOk, puzzleIndex, puzzleWords, lastError,
                   allWords, puzzles, wordList, events, result, outcomes, attempted>>
    /\ UNCHANGED <<gridVars, cpVars>>

\* lines 53-56: the call rejects; `continue`
SourceRejects ==
    /\ wlpc = "await"
    /\ lastError' = [NoError EXCEPT !.kind = "exception"]
    /\ outcomes' = outcomes \cup {"exception"}
    /\ pending' = endCall(pending, <<puzzleIndex, allocAttempt>>)
    /\ wlpc' = "while"
    /\ UNCHANGED <<numPuzzles, wordsPerPuzzle, templateOk, puzzleIndex, allocAttempt, puzzleWords,
                   allWords, puzzles, wordList, events, result, prompt, calls, attempted>>
    /\ UNCHANGED <<gridVars, cpVars>>

\* lines 48-52, 57-70: the call resolves; parse and filter the response
SourceResolves ==
    /\ wlpc = "await"
    /\ \E response \in Responses :
         LET ws == parseResponse(response, allWords, wordsPerPuzzle)
         IN  /\ puzzleWords' = ws
             /\ lastError' = IF Len(ws) # wordsPerPuzzle
                             THEN [kind |-> "count", attempt |-> allocAttempt, got |-> Len(ws)]
                             ELSE lastError
             /\ outcomes' = outcomes \cup {IF Len(ws) # wordsPerPuzzle THEN "count" ELSE "ok"}
    /\ pending' = endCall(pending, <<puzzleIndex, allocAttempt>>)
    /\ wlpc' = "while"
    /\ UNCHANGED <<numPuzzles, wordsPerPuzzle, templateOk, puzzleIndex, allocAttempt, allWords,
                   puzzles, wordList, events, result, prompt, calls, attempted>>
    /\ UNCHANGED <<gridVars, cpVars>>

\* lines 72-75: the loop ended without the required count
AllocationFails ==
    /\ wlpc = "while"
    /\ ~whileCond(allocAttempt, puzzleWords, wordsPerPuzzle)
    /\ Len(puzzleWords) # wordsPerPuzzle
    /\ events' = Append(events, Event("error", NoData, exhaustedError(puzzleIndex, lastError)))
    /\ result' = exhaustedReturn(puzzleIndex, lastError, wordList)
    /\ wlpc' = "done"
    /\ UNCHANGED <<numPuzzles, wordsPerPuzzle, templateOk, puzzleIndex, allocAttempt, puzzleWords,
                   lastError, allWords, puzzles, wordList, prompt, calls, outcomes,
                   attempted, pending>>
    /\ UNCHANGED <<gridVars, cpVars>>

\* lines 76-81: the list is accepted, recorded as used and streamed; i++
AcceptPuzzle ==
    /\ wlpc = "while"
    /\ ~whileCond(allocAttempt, puzzleWords, wordsPerPuzzle)
    /\ Len(puzzleWords) = wordsPerPuzzle
    /\ puzzles' = Append(puzzles, puzzleWords)
    /\ allWords' = addAll(allWords, puzzleWords)
    /\ wordList' = wordList \o chunkText(puzzleIndex, puzzleWords)
    /\ events' = Append(events, Event("chunk", chunkText(puzzleIndex, puzzleWords), NoError))
    /\ puzzleIndex' = puzzleIndex + 1
    /\ wlpc' = "for"
    /\ UNCHANGED <<numPuzzles, wordsPerPuzzle, templateOk, allocAttempt, puzzleWords,
                   lastError, result, prompt, calls, outcomes, attempted, pending>>
    /\ UNCHANGED <<gridVars, cpVars>>

\* lines 82-83: every puzzle has its list
Finish ==
    /\ wlpc = "for"
    /\ puzzleIndex >= numPuzzles
    /\ events' = Append(events, Event("end", wordList, NoError))
    /\ result' = [success |-> TRUE, wordList |-> wordList]
    /\ wlpc' = "done"
    /\ UNCHANGED <<numPuzzles, wordsPerPuzzle, templateOk, puzzleIndex, allocAttempt, puzzleWords,
                   lastError, allWords, puzzles, wordList, prompt, calls, outcomes,
                   attempted, pending>>
    /\ UNCHANGED <<gridVars, cpVars>>

NextWL ==
    \/ Start \/ StartFails \/ BeginPuzzle \/ CallSource \/ SourceRejects
    \/ SourceResolves \/ AllocationFails \/ AcceptPuzzle \/ Finish

SpecWL == InitWL /\ [][NextWL]_vars

\* the handler's own steps run as soon as the event loop reaches them, and
\* every source call resolves or rejects in the end
SpecWLFair == SpecWL /\ WF_vars(NextWL)

(***************************************************************************)
(* The 'create-puzzles' handler (main.js, lines 48-123).  Of each puzzle   *)
(* the handler keeps the category, the words handed to createPuzzle and    *)
(* the words createPuzzle placed; the grid itself is SpecGrid's subject.   *)
(***************************************************************************)
MaxTopics == 2

\* the literals of lines 100 and 102
maxWords == 15

minWords == 10

Topics == {"A", "B"}

TopicLists == UNION {[1 .. n -> Topics] : n \in 0 .. MaxTopics}

\* [...new Set(ws)]: exact-match dedupe, first occurrences kept in order
RECURSIVE uniqueExact(_, _)
uniqueExact(ws, out) ==
    IF ws = <<>> THEN out
    ELSE IF has(out, Head(ws))
         THEN uniqueExact(Tail(ws), out)
         ELSE uniqueExact(Tail(ws), Append(out, Head(ws)))

\* lines 91-100: the words of one response
topicWords(response) ==
    LET parts == split(pickLine(response), ",")
        trimmed == [k \in DOMAIN parts |-> trim(parts[k])]
        valid == SelectSeq(trimmed, isValidWord)
    IN  truncate(uniqueExact(valid, <<>>), maxWords)

\* createPuzzle keeps the words it placed, in input order; a word whose
\* attempts were all rejected is left out (here: none, the first or the last)
dropChoices(ws) == {{}, {1}, {Len(ws)}}

without(ws, dropped) ==
    LET keep == {k \in DOMAIN ws : k \notin dropped}
        RECURSIVE pick(_)
        pick(k) == IF k > Len(ws) THEN <<>>
                   ELSE IF k \in keep THEN <<ws[k]>> \o pick(k + 1) ELSE pick(k + 1)
    IN  pick(1)

\* createPuzzle(words, topic), lines 154-196, without the grid
createPuzzle(ws, topic, dropped) ==
    [category |-> topic,
     words |-> ws,
     placedWords |-> [k \in DOMAIN without(ws, dropped) |->
                        [word |-> without(ws, dropped)[k],
                         gridWord |-> toUpperCase(without(ws, dropped)[k])]]]

\* words the source may answer with: "aat", "bat", "cat", ...
mkWord(k) == <<lowerLetters[k], "a", "t">>

wordRun(from, to) == join([k \in 1 .. (to - from + 1) |-> mkWord(from + k - 1)], <<",", " ">>)

\* ten valid words
cpRespTen == wordRun(1, 10)

\* ten other valid words, after a line without a comma
cpRespOtherTen == <<"O", "k", ":", "\n">> \o wordRun(11, 20)

\* sixteen valid words
cpRespSixteen == wordRun(1, 16)

\* nine valid words
cpRespNine == wordRun(1, 9)

\* ten valid words among a repeated word, a case variant, a two-word token,
\* a token with a digit, a short and a too long token
cpRespMixed ==
    <<"a","a","t",","," ","A","a","t",",","i","c","e"," ","t","e","a",",","b","4","t",",","a","b",",">>
    \o <<"a","b","c","d","e","f","g","h","i","j","k","l","m","n","o","p",",">>
    \o wordRun(1, 9)

CPResponses == {cpRespTen, cpRespOtherTen, cpRespSixteen, cpRespNine, cpRespMixed}

\* the word lists lines 91-100 make of these responses
CPWordLists == {topicWords(response) : response \in CPResponses}

\* puzzles.unshift(puzzle): the new puzzle goes first
unshiftPuzzle(ps, p) == <<p>> \o ps

\* line 105: puzzles.push(puzzle)
pushPuzzle(ps, p) == Append(ps, p)

\* a skipped topic ends the loop
afterSkipBreak(idx, n) == n

\* lines 108-116: a skipped topic is counted and the loop goes on with i + 1
afterSkip(idx, n) == idx + 1

\* line 83: ollama.generate(...) is called for topic idx
issue(flight, idx) == flight \cup {idx}

\* the handler goes on while the call is still pending
settleNothing(flight, idx) == flight

\* line 83: `await` returns (or throws) once the call for topic idx has settled
settle(flight, idx) == flight \ {idx}

\* the module-level list a new invocation may find: the initial [] (line 12)
\* or the list an earlier invocation published (line 119)
PriorBatches == {<<>>, <<createPuzzle(topicWords(cpRespOtherTen), "B", {})>>}

\* the list an overlapping invocation publishes at its line 119
OtherBatches ==
    {<<createPuzzle(topicWords(cpRespTen), "A", {}),
       createPuzzle(topicWords(cpRespSixteen), "B", {1})>>}

\* mutant of sharedAfterPush: the handler pushes to the shared list itself
sharedAliased(shared, local) == local

\* lines 57 and 105: `puzzles` is a fresh local array, so a push leaves the
\* module-level generatedPuzzles as it was
sharedAfterPush(shared, local) == shared

InitCP ==
    /\ subthemes \in TopicLists
    /\ senderAlive \in BOOLEAN
    /\ cpTemplateOk \in BOOLEAN
    /\ topicIndex = 0
    /\ builtPuzzles = <<>>
    /\ successCount = 0
    /\ skipCount = 0
    /\ generatedPuzzles \in PriorBatches
    /\ progressSent = <<>>
    /\ cpResult = Pending
    /\ inFlight = {}
    /\ called = <<>>
    /\ topicOutcomes = <<>>
    /\ pdfResult = Pending
    /\ cppc = "start"
    /\ IdleGrid
    /\ IdleWL

\* lines 52-54: nothing to do
CPNoSubthemes ==
    /\ cppc = "start"
    /\ Len(subthemes) = 0
    /\ cpResult' = [success |-> FALSE, error |-> "No sub-themes available"]
    /\ cppc' = "done"
    /\ UNCHANGED <<subthemes, senderAlive, cpTemplateOk, topicIndex, builtPuzzles,
                   successCount, skipCount, generatedPuzzles, progressSent,
                   inFlight, called, topicOutcomes>>
    /\ UNCHANGED pdfResult
    /\ UNCHANGED <<gridVars, wlVars>>

\* lines 56-59: read the template, start with no puzzles
CPStart ==
    /\ cppc = "start"
    /\ Len(subthemes) # 0
    /\ cpTemplateOk
    /\ cppc' = "for"
    /\ UNCHANGED <<subthemes, senderAlive, cpTemplateOk, topicIndex, builtPuzzles,
                   successCount, skipCount, generatedPuzzles, progressSent, cpResult,
                   inFlight, called, topicOutcomes>>
    /\ UNCHANGED pdfResult
    /\ UNCHANGED <<gridVars, wlVars>>

\* line 56 throws outside any try: the handler's promise rejects
CPStartThrows ==
    /\ cppc = "start"
    /\ Len(subthemes) # 0
    /\ ~cpTemplateOk
    /\ cppc' = "thrown"
    /\ UNCHANGED <<subthemes, senderAlive, cpTemplateOk, topicIndex, builtPuzzles,
                   successCount, skipCount, generatedPuzzles, progressSent, cpResult,
                   inFlight, called, topicOutcomes>>
    /\ UNCHANGED pdfResult
    /\ UNCHANGED <<gridVars, wlVars>>

\* lines 61-88: progress event, prompt, source call
CPCallSource ==
    /\ cppc = "for"
    /\ topicIndex < Len(subthemes)
    /\ progressSent' = IF senderAlive
                       THEN Append(progressSent, [current |-> topicIndex + 1,
                                                  topic |-> subthemes[topicIndex + 1]])
                       ELSE progressSent
    /\ inFlight' = issue(inFlight, topicIndex)
    /\ called' = Append(called, topicIndex)
    /\ cppc' = "await"
    /\ UNCHANGED <<subthemes, senderAlive, cpTemplateOk, topicIndex, builtPuzzles,
                   successCount, skipCount, generatedPuzzles, cpResult, topicOutcomes>>
    /\ UNCHANGED pdfResult
    /\ UNCHANGED <<gridVars, wlVars>>

\* lines 113-116: the call rejects, the topic is skipped
CPSourceRejects ==
    /\ cppc = "await"
    /\ skipCount' = skipCount + 1
    /\ topicIndex' = afterSkip(topicIndex, Len(subthemes))
    /\ inFlight' = settle(inFlight, topicIndex)
    /\ topicOutcomes' = Append(topicOutcomes, "skipped")
    /\ cppc' = "for"
    /\ UNCHANGED <<subthemes, senderAlive, cpTemplateOk, builtPuzzles, successCount,
                   generatedPuzzles, progressSent, cpResult, called>>
    /\ UNCHANGED pdfResult
    /\ UNCHANGED <<gridVars, wlVars>>

\* lines 90-107: enough words, the puzzle is built and kept
CPBuildPuzzle ==
    /\ cppc = "await"
    /\ \E ws \in CPWordLists :
             /\ Len(ws) >= minWords
             /\ \E dropped \in dropChoices(ws) :
                  builtPuzzles' = pushPuzzle(builtPuzzles,
                                             createPuzzle(ws, subthemes[topicIndex + 1], dropped))
    /\ successCount' = successCount + 1
    /\ topicIndex' = topicIndex + 1
    /\ inFlight' = settle(inFlight, topicIndex)
    /\ topicOutcomes' = Append(topicOutcomes, "built")
    /\ cppc' = "for"
    /\ generatedPuzzles' = sharedAfterPush(generatedPuzzles, builtPuzzles')
    /\ UNCHANGED <<subthemes, senderAlive, cpTemplateOk, skipCount, progressSent,
                   cpResult, called>>
    /\ UNCHANGED pdfResult
    /\ UNCHANGED <<gridVars, wlVars>>

\* lines 108-111: too few words, the topic is skipped
CPTooFewWords ==
    /\ cppc = "await"
    /\ \E ws \in CPWordLists : Len(ws) < minWords
    /\ skipCount' = skipCount + 1
    /\ topicIndex' = afterSkip(topicIndex, Len(subthemes))
    /\ inFlight' = settle(inFlight, topicIndex)
    /\ topicOutcomes' = Append(topicOutcomes, "skipped")
    /\ cppc' = "for"
    /\ UNCHANGED <<subthemes, senderAlive, cpTemplateOk, builtPuzzles, successCount,
                   generatedPuzzles, progressSent, cpResult, called>>
    /\ UNCHANGED pdfResult
    /\ UNCHANGED <<gridVars, wlVars>>

\* lines 119-122: publish the puzzles and return
CPFinish ==
    /\ cppc = "for"
    /\ topicIndex >= Len(subthemes)
    /\ generatedPuzzles' = builtPuzzles
    /\ cpResult' = [success |-> TRUE, puzzles |-> builtPuzzles,
                    successCount |-> successCount, skipCount |-> skipCount]
    /\ cppc' = "done"
    /\ UNCHANGED <<subthemes, senderAlive, cpTemplateOk, topicIndex, builtPuzzles,
                   successCount, skipCount, progressSent, inFlight, called,
                   topicOutcomes>>
    /\ UNCHANGED pdfResult
    /\ UNCHANGED <<gridVars, wlVars>>

\* mutant of createPdf: the empty list is not checked for
createPdfUnchecked(shared, pdfOk) ==
    IF pdfOk THEN [success |-> TRUE, error |-> ""]
    ELSE [success |-> FALSE, error |-> "exception"]

\* 'create-pdf', lines 129-150: its return value, without the file name
createPdf(shared, pdfOk) ==
    IF Len(shared) = 0
    THEN [success |-> FALSE, error |-> "No puzzles available"]
    ELSE IF pdfOk THEN [success |-> TRUE, error |-> ""]
    ELSE [success |-> FALSE, error |-> "exception"]

\* line 119 of another invocation of the handler, which can only run while
\* this one is suspended on its source call
CPOtherFinish ==
    /\ cppc = "await"
    /\ \E batch \in OtherBatches : generatedPuzzles' = batch
    /\ UNCHANGED <<subthemes, senderAlive, cpTemplateOk, topicIndex, builtPuzzles,
                   successCount, skipCount, progressSent, cpResult, inFlight, called,
                   topicOutcomes, cppc, pdfResult>>
    /\ UNCHANGED <<gridVars, wlVars>>

\* 'create-pdf', lines 126-151: it runs before the handler starts, while it is
\* suspended or after it returned; createPDF may fail, which is caught
CreatePdf ==
    /\ cppc \in {"start", "await", "done", "thrown"}
    /\ \E pdfOk \in BOOLEAN : pdfResult' = createPdf(generatedPuzzles, pdfOk)
    /\ UNCHANGED <<subthemes, senderAlive, cpTemplateOk, topicIndex, builtPuzzles,
                   successCount, skipCount, generatedPuzzles, progressSent, cpResult,
                   inFlight, called, topicOutcomes, cppc>>
    /\ UNCHANGED <<gridVars, wlVars>>

NextCP ==
    \/ CPNoSubthemes \/ CPStart \/ CPStartThrows \/ CPCallSource \/ CPSourceRejects
    \/ CPBuildPuzzle \/ CPTooFewWords \/ CPFinish \/ CPOtherFinish \/ CreatePdf

SpecCP == InitCP /\ [][NextCP]_vars

(***************************************************************************)
(* Properties of the puzzle builder.                                       *)
(***************************************************************************)
\* cell k (1-based) of a word laid from (row, col) along direction
CellAt(row, col, direction, k) ==
    <<row + (k - 1) * direction[1], col + (k - 1) * direction[2]>>

\* every cell of the word is inside the grid and is empty or holds the word's letter
Fits(g, word, row, col, direction) ==
    \A k \in 1 .. Len(word) :
        LET cell == CellAt(row, col, direction, k)
        IN  /\ cell[1] \in Idx
            /\ cell[2] \in Idx
            /\ g[cell[1]][cell[2]] \in {"", word[k]}

\* every cell of the word is inside the grid
InBounds(word, row, col, direction) ==
    \A k \in 1 .. Len(word) :
        CellAt(row, col, direction, k)[1] \in Idx /\ CellAt(row, col, direction, k)[2] \in Idx

\* g with the whole word written from (row, col) along direction
WithWord(g, word, row, col, direction) ==
    [r \in Idx |-> [c \in Idx |->
        IF \E k \in 1 .. Len(word) : CellAt(row, col, direction, k) = <<r, c>>
        THEN word[CHOOSE k \in 1 .. Len(word) : CellAt(row, col, direction, k) = <<r, c>>]
        ELSE g[r][c]]]

FiveVectors == { <<0, 1>>, <<1, 0>>, <<1, 1>>, <<-1, 0>>, <<-1, 1>> }

Starts == (-1) .. gridSize

CellsOf(pw) == Range(pw.positions)

\* C1: the grid returned by generatePuzzle holds one uppercase letter A-Z in
\* every cell, whatever the input words are.
C1_ReturnedGridAllUppercase ==
    (pc = "done" /\ variant = "generatePuzzle") =>
        \A r \in Idx, c \in Idx : grid[r][c] \in UpperSet

\* C2: in the returned puzzle, the grid holds gridWord[i] at positions[i] for
\* every placed word, also for words crossed later and after the fill.
C2_PositionsMatchGrid ==
    pc = "done" =>
        \A n \in DOMAIN placedWords :
            \A k \in DOMAIN placedWords[n].positions :
                LET cell == placedWords[n].positions[k]
                IN  /\ cell[1] \in Idx
                    /\ cell[2] \in Idx
                    /\ k \in DOMAIN placedWords[n].gridWord
                    /\ grid[cell[1]][cell[2]] = placedWords[n].gridWord[k]

\* a returned puzzle with two different placed words that share a cell
C2_Witness ==
    /\ pc = "done"
    /\ Len(placedWords) = 2
    /\ placedWords[1].gridWord # placedWords[2].gridWord
    /\ CellsOf(placedWords[1]) \cap CellsOf(placedWords[2]) # {}

\* C3: every placed word has as many positions as letters, all inside the
\* grid, in a line whose step is one of the five vectors (the column never
\* decreases).
C3_PositionsCollinear ==
    \A n \in DOMAIN placedWords :
        LET pw == placedWords[n]
        IN  /\ Len(pw.positions) = Len(pw.gridWord)
            /\ \A k \in DOMAIN pw.positions :
                 pw.positions[k][1] \in Idx /\ pw.positions[k][2] \in Idx
            /\ \E step \in FiveVectors :
                 \A k \in 1 .. (Len(pw.positions) - 1) :
                     /\ pw.positions[k + 1][1] - pw.positions[k][1] = step[1]
                     /\ pw.positions[k + 1][2] - pw.positions[k][2] = step[2]
            /\ \A k \in 1 .. (Len(pw.positions) - 1) :
                 pw.positions[k + 1][2] >= pw.positions[k][2]

\* a returned puzzle holds a word of three letters running up-right
C3_Witness ==
    /\ pc = "done"
    /\ \E n \in DOMAIN placedWords :
         /\ Len(placedWords[n].positions) = 3
         /\ placedWords[n].positions[2][1] - placedWords[n].positions[1][1] = -1
         /\ placedWords[n].positions[2][2] - placedWords[n].positions[1][2] = 1

\* C4: canPlaceWord answers true exactly when every cell of the word is inside
\* the grid and is empty or already holds the word's letter (for the word
\* and grid of every attempt, every direction and every start cell, also
\* start cells one step outside the grid).
C4_CanPlaceWordIffFits ==
    pc = "attempt" =>
        \A d \in DOMAIN directions, row \in Starts, col \in Starts :
            canPlaceWord(grid, gridWord, row, col, directions[d])
                <=> Fits(grid, gridWord, row, col, directions[d])

\* after a rejected attempt on a grid that holds a word: some draw inside the
\* grid is refused for a different letter, and some draw reuses a letter
C4_Witness ==
    /\ pc = "attempt"
    /\ attempt >= 1
    /\ ~placed
    /\ placedWords # <<>>
    /\ \E d \in DOMAIN directions, row \in Idx, col \in Idx :
         /\ InBounds(gridWord, row, col, directions[d])
         /\ ~canPlaceWord(grid, gridWord, row, col, directions[d])
    /\ \E d \in DOMAIN directions, row \in Idx, col \in Idx :
         /\ canPlaceWord(grid, gridWord, row, col, directions[d])
         /\ \E k \in 1 .. Len(gridWord) :
              LET cell == CellAt(row, col, directions[d], k)
              IN  grid[cell[1]][cell[2]] = gridWord[k]

\* C5: an attempt either is rejected and leaves grid and placedWords as they
\* were, or it fits and writes the whole word: never a part of a word.
C5_RejectedAttemptWritesNothing ==
    [][ (pc = "attempt" /\ attempt' = attempt + 1) =>
            \/ /\ ~placed'
               /\ grid' = grid
               /\ placedWords' = placedWords
            \/ /\ placed'
               /\ \E d \in DOMAIN directions, row \in Idx, col \in Idx :
                    /\ Fits(grid, gridWord, row, col, directions[d])
                    /\ grid' = WithWord(grid, gridWord, row, col, directions[d])
                    /\ Len(placedWords') = Len(placedWords) + 1
                    /\ placedWords'[Len(placedWords')].positions =
                         [k \in 1 .. Len(gridWord) |-> CellAt(row, col, directions[d], k)]
      ]_vars

\* the budget of a word was spent on rejected attempts although a draw exists
\* whose first cell is free and whose later cell holds another letter
C5_Witness ==
    /\ pc = "attempt"
    /\ attempt = maxAttempts
    /\ ~placed
    /\ \E d \in DOMAIN directions, row \in Idx, col \in Idx :
         /\ InBounds(gridWord, row, col, directions[d])
         /\ grid[row][col] = ""
         /\ ~Fits(grid, gridWord, row, col, directions[d])

(***************************************************************************)
(* Properties of the word allocation handlers.                             *)
(***************************************************************************)
\* the handler returned the failure of an exhausted allocation
Exhausted ==
    /\ wlpc = "done"
    /\ "success" \in DOMAIN result
    /\ ~result.success
    /\ result.error.kind = "exhausted"

LowerWordsOf(ws) == {toLowerCase(ws[k]) : k \in DOMAIN ws}

\* C6: no word, compared case-insensitively, is in the accepted lists of two
\* different puzzles of one generate-word-list invocation.
C6_AcceptedListsDisjoint ==
    \A p \in DOMAIN puzzles, q \in DOMAIN puzzles :
        p # q => LowerWordsOf(puzzles[p]) \cap LowerWordsOf(puzzles[q]) = {}

\* a successful run with three accepted lists, the last one after a response
\* that did not give the required count
C6_Witness ==
    /\ wlpc = "done"
    /\ "success" \in DOMAIN result
    /\ result.success
    /\ Len(puzzles) = 3
    /\ "count" \in outcomes

\* C7: no word, compared case-insensitively, is in the word lists of two
\* different puzzles returned by one create-puzzles invocation.
C7_ReturnedPuzzlesShareNoWord ==
    (cppc = "done" /\ "puzzles" \in DOMAIN cpResult) =>
        \A p \in DOMAIN cpResult.puzzles, q \in DOMAIN cpResult.puzzles :
            p # q =>
                {toLowerCase(cpResult.puzzles[p].placedWords[k].word) :
                    k \in DOMAIN cpResult.puzzles[p].placedWords}
                \cap
                {toLowerCase(cpResult.puzzles[q].placedWords[k].word) :
                    k \in DOMAIN cpResult.puzzles[q].placedWords} = {}

\* C8: an allocation that never reaches the required count makes exactly 10
\* source calls, one per attempt whatever its outcome, before it fails.
C8_ExhaustedAfterTenCalls ==
    /\ calls <= 10
    /\ (wlpc \in {"while", "await"} => calls = allocAttempt)
    /\ (Exhausted => calls = 10)

\* a failure after ten calls, some of which rejected and some of which
\* resolved with a wrong count
C8_Witness ==
    /\ Exhausted
    /\ calls = 10
    /\ outcomes = {"exception", "count"}

\* C9: an accepted list has exactly wordsPerPuzzle words, pairwise distinct
\* ignoring case and none of them used before; once such a list is parsed no
\* further source call is made for the puzzle.
C9_AcceptedListExact ==
    [][ /\ (puzzles' # puzzles =>
                /\ puzzles' = Append(puzzles, puzzleWords)
                /\ Len(puzzleWords) = wordsPerPuzzle
                /\ Cardinality(LowerWordsOf(puzzleWords)) = wordsPerPuzzle
                /\ LowerWordsOf(puzzleWords) \cap LowerWordsOf(allWords) = {})
        /\ ((wlpc = "while" /\ outcomes \cap {"ok"} # {}) =>
                /\ calls' = calls
                /\ puzzles' = Append(puzzles, puzzleWords))
      ]_vars

\* a second or later list was just accepted, on the second or a later attempt
C9_Witness ==
    /\ wlpc = "for"
    /\ Len(puzzles) >= 2
    /\ calls >= 2
    /\ calls < 10
    /\ "ok" \in outcomes

CategoriesOf(ps) == [k \in DOMAIN ps |-> ps[k].category]

\* the topics handled so far whose puzzle was built, in topic order
BuiltTopics ==
    without(subthemes, {k \in DOMAIN subthemes :
                          k > Len(topicOutcomes) \/ topicOutcomes[k] # "built"})

\* C11: in create-puzzles a topic that fails (the source call rejects, or the
\* response has fewer than 10 valid words) does not abort the batch: when the
\* handler returns, the call of every topic was issued exactly once, in topic
\* order, every topic was either built or skipped, and the returned puzzles
\* are those of exactly the topics that were built.
C11_FailedTopicDoesNotAbortBatch ==
    (cppc = "done" /\ Len(subthemes) > 0) =>
        /\ called = [k \in 1 .. Len(subthemes) |-> k - 1]
        /\ Len(topicOutcomes) = Len(subthemes)
        /\ successCount + skipCount = Len(subthemes)
        /\ "puzzles" \in DOMAIN cpResult
        /\ Len(cpResult.puzzles) = successCount
        /\ CategoriesOf(cpResult.puzzles) = BuiltTopics

\* a batch whose first topic was skipped and whose second topic was built
C11_Witness ==
    /\ cppc = "done"
    /\ topicOutcomes = <<"skipped", "built">>
    /\ Len(cpResult.puzzles) = 1
    /\ cpResult.puzzles[1].category = subthemes[2]

\* C12: when no topic of a create-puzzles batch succeeds, the handler returns
\* an explicit failure (success false), never a success with no puzzles.
C12_ZeroSuccessesIsFailure ==
    (cppc = "done" /\ successCount = 0) => cpResult.success = FALSE

\* C13: every invocation of the handler resolves with a value that has a
\* success field; it never throws, whatever fails (the source call, the read
\* of the prompt template).
C13_HandlerAlwaysResolves ==
    /\ cppc # "thrown"
    /\ cppc = "done" => "success" \in DOMAIN cpResult

RECURSIVE IsSubsequence(_, _)
IsSubsequence(a, b) ==
    IF a = <<>> THEN TRUE
    ELSE IF b = <<>> THEN FALSE
    ELSE IF Head(a) = Head(b) THEN IsSubsequence(Tail(a), Tail(b))
    ELSE IsSubsequence(a, Tail(b))

\* C17: the puzzles create-puzzles returns are in the order of their topics:
\* the sequence of their category fields is a subsequence of subthemes.
C17_PuzzlesInTopicOrder ==
    (cppc = "done" /\ "puzzles" \in DOMAIN cpResult) =>
        IsSubsequence(CategoriesOf(cpResult.puzzles), subthemes)

\* two puzzles returned for two different topics
C17_Witness ==
    /\ cppc = "done"
    /\ "puzzles" \in DOMAIN cpResult
    /\ Len(cpResult.puzzles) = 2
    /\ subthemes[1] # subthemes[2]
    /\ CategoriesOf(cpResult.puzzles) = subthemes

(***************************************************************************)
(* Properties of the used-word set and of the event stream of              *)
(* 'generate-word-list'.                                                   *)
(***************************************************************************)
AcceptedLower(ps) == UNION {LowerWordsOf(ps[p]) : p \in DOMAIN ps}

\* the words a prompt lists as used
PromptWords(text) ==
    LET parts == split(text, ",")
    IN  {trim(parts[k]) : k \in DOMAIN parts} \ {<<>>}

\* C15: within one generate-word-list invocation the used-word set starts
\* empty and only grows; when a source call is built, every word accepted
\* for an earlier puzzle is in the set and in the prompt of that call, and the
\* list kept from a response holds none of them.
C15_UsedWordsOnlyGrow ==
    [][ /\ wlpc = "start" => allWords = <<>>
        /\ Range(allWords) \subseteq Range(allWords')
        /\ wlpc' = "await" =>
             /\ AcceptedLower(puzzles') \subseteq Range(allWords')
             /\ AcceptedLower(puzzles') \subseteq PromptWords(prompt')
        /\ (wlpc = "await" /\ wlpc' = "while") =>
             LowerWordsOf(puzzleWords') \cap AcceptedLower(puzzles) = {} ]_vars

\* the call for the third puzzle is pending, two lists were accepted before
C15_Witness ==
    /\ wlpc = "await"
    /\ puzzleIndex = 2
    /\ Len(puzzles) = 2
    /\ AcceptedLower(puzzles) # {}
    /\ AcceptedLower(puzzles) \subseteq PromptWords(prompt)

Terminal(e) == e.type \in {"end", "error"}

\* C16: a generate-word-list invocation that has returned sent exactly one
\* terminal event ('end' or 'error'), as its last event; one that has not
\* returned sent none; the terminal event is 'end' exactly when the returned
\* value has success true and 'error' exactly when it has success false.
C16_OneTerminalEvent ==
    LET term == {k \in DOMAIN events : Terminal(events[k])}
    IN  /\ Cardinality(term) <= 1
        /\ term \subseteq {Len(events)}
        /\ (wlpc = "done") <=> (term # {})
        /\ wlpc # "done" => result = Pending
        /\ wlpc = "done" =>
             /\ "success" \in DOMAIN result
             /\ (events[Len(events)].type = "end") <=> (result.success = TRUE)
             /\ (events[Len(events)].type = "error") <=> (result.success = FALSE)

\* a run that failed after it had streamed a chunk
C16_Witness ==
    /\ wlpc = "done"
    /\ Len(events) >= 3
    /\ events[2].type = "chunk"
    /\ events[Len(events)].type = "error"
    /\ result.success = FALSE


(***************************************************************************)
(* Properties of the attempt loop of generatePuzzle / createPuzzle.        *)
(***************************************************************************)
PlacedCount == Cardinality({k \in DOMAIN fate : fate[k] = "placed"})

\* the input words with the given fate, as placedWords names them, in input order
WordsWithFate(f) ==
    without([k \in DOMAIN words |-> originalWord(variant, words[k])],
            {k \in DOMAIN words : k > Len(fate) \/ fate[k] # f})

WordsOf(pws) == [k \in DOMAIN pws |-> pws[k].word]

\* C18: when every one of the maxAttempts attempts for a word was rejected,
\* the builder goes on with the next word and changes neither the grid nor
\* placedWords; the puzzle is returned after every input word was gone
\* through, and its placedWords are exactly the words that were placed, in
\* input order.
C18_RejectedWordIsDroppedSilently ==
    /\ [](pc = "done" => /\ wi = Len(words)
                         /\ Len(fate) = Len(words)
                         /\ WordsOf(placedWords) = WordsWithFate("placed"))
    /\ [][ (pc = "attempt" /\ ~placed /\ attempt >= maxAttempts) =>
               /\ pc' = "word"
               /\ wi' = wi + 1
               /\ fate' = Append(fate, "dropped")
               /\ placedWords' = placedWords
               /\ grid' = grid ]_vars

\* a returned puzzle whose first word was dropped and whose second was placed
C18_Witness ==
    /\ pc = "done"
    /\ fate = <<"dropped", "placed">>
    /\ Len(placedWords) = 1
    /\ placedWords[1].word = originalWord(variant, words[2])

\* C19: a word whose normalized length exceeds gridSize is rejected at every
\* start cell in every direction: no placedWords entry is longer than
\* gridSize, and before the fill every letter in the grid lies on a cell of
\* a placedWords entry.
C19_TooLongWordNeverPlaced ==
    /\ \A k \in DOMAIN placedWords : Len(placedWords[k].gridWord) <= gridSize
    /\ (pc = "attempt" /\ Len(gridWord) > gridSize) =>
          /\ ~placed
          /\ \A d \in DOMAIN directions, row \in Idx, col \in Idx :
                ~canPlaceWord(grid, gridWord, row, col, directions[d])
    /\ pc # "done" =>
          \A r \in Idx, c \in Idx :
              grid[r][c] # "" => \E k \in DOMAIN placedWords : <<r, c>> \in CellsOf(placedWords[k])

\* the attempts for a too long word are spent, a shorter word was placed before
C19_Witness ==
    /\ pc = "attempt"
    /\ Len(gridWord) > gridSize
    /\ attempt = maxAttempts
    /\ ~placed
    /\ Len(placedWords) = 1

\* C20: a word gets at most maxAttempts attempts and none after the first
\* accepted one, so each input word has at most one placedWords entry and
\* placedWords is never longer than the input list.
C20_AtMostOneEntryPerWord ==
    /\ [](/\ attempt <= maxAttempts
          /\ Len(placedWords) <= Len(words)
          /\ Len(placedWords) = PlacedCount + (IF pc = "attempt" /\ placed THEN 1 ELSE 0))
    /\ [][ (pc = "attempt" /\ placed) =>
               /\ pc' = "word"
               /\ attempt' = attempt
               /\ placedWords' = placedWords ]_vars

\* the second word was accepted at its first attempt, the loop is about to end
C20_Witness ==
    /\ pc = "attempt"
    /\ placed
    /\ attempt = 1
    /\ attempt < maxAttempts
    /\ wi = 1
    /\ Len(placedWords) = 2


(***************************************************************************)
(* Retries and scheduling of the source calls.                             *)
(***************************************************************************)
\* the number of source calls issued for the topic with index idx
CallsFor(idx) == Cardinality({j \in DOMAIN called : called[j] = idx})

\* C21: in create-puzzles a topic is reported as skipped only after 10
\* source calls were made for it.
C21_SkippedOnlyAfterTenCalls ==
    \A k \in DOMAIN topicOutcomes :
        topicOutcomes[k] = "skipped" => CallsFor(k - 1) = maxAllocAttempts


\* C22: within one invocation at most one source call is in flight at any
\* time: the pending call is that of the current puzzle's current attempt, and
\* it is issued only after every earlier puzzle had its list accepted.
C22_AtMostOneCallInFlight ==
    /\ Cardinality(pending) <= 1
    /\ pending = (IF wlpc = "await" THEN {<<puzzleIndex, allocAttempt>>} ELSE {})
    /\ wlpc = "await" =>
          /\ Len(puzzles) = puzzleIndex
          /\ attempted = 0 .. puzzleIndex
          /\ \A p \in DOMAIN puzzles : Len(puzzles[p]) = wordsPerPuzzle

\* the second call for the second puzzle is pending
C22_Witness ==
    /\ wlpc = "await"
    /\ puzzleIndex = 1
    /\ pending = {<<1, 2>>}
    /\ Len(puzzles) = 1


(***************************************************************************)
(* Properties of the response filter.                                      *)
(***************************************************************************)
\* the tokens of the parsed line, lowercased, that are not in the used-word
\* set and do not repeat an earlier token of the line, in response order
FreshTokens(response, used) ==
    LET toks == tokens(pickLine(response))
        low == [k \in DOMAIN toks |-> toLowerCase(toks[k])]
        stale == {k \in DOMAIN low :
                    \/ \E u \in DOMAIN used : used[u] = low[k]
                    \/ \E j \in 1 .. (k - 1) : low[j] = low[k]}
    IN  without(low, stale)

\* C23: in generate-word-list the list is cut to wordsPerPuzzle only after
\* used words and repeats were removed: whenever a call is pending, any
\* response whose line holds at least wordsPerPuzzle fresh tokens gives
\* exactly the first wordsPerPuzzle of them (lowercased), however many used
\* or repeated tokens stand before them.
C23_TruncationAfterFiltering ==
    wlpc = "await" =>
        \A response \in Responses :
            LET fresh == FreshTokens(response, allWords)
            IN  Len(fresh) >= wordsPerPuzzle =>
                  parseResponse(response, allWords, wordsPerPuzzle)
                    = SubSeq(fresh, 1, wordsPerPuzzle)

\* a response whose first token was already used gave a full list
C23_Witness ==
    /\ wlpc = "while"
    /\ allWords # <<>>
    /\ Len(puzzleWords) = wordsPerPuzzle
    /\ \E response \in Responses :
          LET toks == tokens(pickLine(response))
          IN  /\ toks # <<>>
              /\ has(allWords, toLowerCase(toks[1]))
              /\ parseResponse(response, allWords, wordsPerPuzzle) = puzzleWords
              /\ puzzleWords = SubSeq(FreshTokens(response, allWords), 1, wordsPerPuzzle)


(***************************************************************************)
(* Properties of the words create-puzzles hands to createPuzzle.           *)
(***************************************************************************)
Alphabet == Range(letters) \cup Range(lowerLetters)

LettersOnly(w) == \A k \in DOMAIN w : w[k] \in Alphabet

\* C24: every word of every puzzle built by create-puzzles consists of
\* letters only (no whitespace, digit or punctuation) and has between 3 and
\* 15 characters, and so has its uppercased form.
C24_BuiltWordsAreValid ==
    \A p \in DOMAIN builtPuzzles :
        /\ \A k \in DOMAIN builtPuzzles[p].words :
              LET w == builtPuzzles[p].words[k]
              IN  /\ LettersOnly(w)
                  /\ Len(w) >= 3
                  /\ Len(w) <= 15
                  /\ Len(toUpperCase(w)) <= 15
        /\ \A k \in DOMAIN builtPuzzles[p].placedWords :
              /\ LettersOnly(builtPuzzles[p].placedWords[k].gridWord)
              /\ Len(builtPuzzles[p].placedWords[k].gridWord) <= 15

\* a puzzle built from the response that mixes valid words with a two-word
\* token, a token with a digit, a short and a too long token
C24_Witness ==
    /\ cppc = "done"
    /\ \E p \in DOMAIN builtPuzzles :
          /\ builtPuzzles[p].words = topicWords(cpRespMixed)
          /\ Len(builtPuzzles[p].words) = 10


(***************************************************************************)
(* Termination of 'generate-word-list'.                                    *)
(***************************************************************************)
\* the source calls the handler may still make: none once it has returned,
\* else 10 for every puzzle not yet accepted, less the calls already made for
\* the current one
CallBudget ==
    IF wlpc = "done" THEN 0
    ELSE maxAllocAttempts * (numPuzzles - puzzleIndex)
           - (IF wlpc \in {"while", "await"} THEN calls ELSE 0)

\* C25: generate-word-list returns whenever every source call resolves or
\* rejects in the end, and it makes at most 10 x numPuzzles source calls: the
\* call budget starts at 10 x numPuzzles, is never negative, never grows, and
\* every source call takes one from it.
C25_TerminatesWithinCallBudget ==
    /\ <>(wlpc = "done")
    /\ [](CallBudget >= 0 /\ (wlpc = "start" => CallBudget = maxAllocAttempts * numPuzzles))
    /\ [][ /\ CallBudget' <= CallBudget
           /\ wlpc' = "await" => CallBudget' = CallBudget - 1 ]_vars

\* a run that returned after it had spent the whole budget of its one puzzle
C25_Witness ==
    /\ wlpc = "done"
    /\ numPuzzles = 1
    /\ calls = maxAllocAttempts
    /\ CallBudget = 0
    /\ "success" \in DOMAIN result


(***************************************************************************)
(* Properties of the grid's cells.                                         *)
(***************************************************************************)
PlacedCells == UNION {CellsOf(placedWords[k]) : k \in DOMAIN placedWords}

\* C26: the filling step writes empty cells only: every cell that held a
\* letter before the fill holds the same letter after it, and filling the
\* returned grid, which has no empty cell, once more changes nothing.
C26_FillIsIdempotent ==
    /\ [](pc = "done" =>
            /\ \A r \in Idx, c \in Idx : grid[r][c] # ""
            /\ \A seed \in 0 .. (FillSeeds - 1) : fillGrid(grid, seed) = grid)
    /\ [][ (pc = "word" /\ pc' = "done") =>
               \A r \in Idx, c \in Idx :
                   grid[r][c] # "" => grid'[r][c] = grid[r][c] ]_vars

\* a returned grid with a placed word and at least one filled cell
C26_Witness ==
    /\ pc = "done"
    /\ Len(placedWords) >= 1
    /\ \E r \in Idx, c \in Idx : <<r, c>> \notin PlacedCells /\ grid[r][c] # ""
    /\ \A k \in DOMAIN placedWords[1].positions :
          grid[placedWords[1].positions[k][1]][placedWords[1].positions[k][2]]
            = placedWords[1].gridWord[k]

\* C27: each cell is write-once in value: once a cell holds a letter, no
\* later placement attempt and no fill changes it to a different letter.
C27_CellsAreWriteOnce ==
    [][ \A r \in Idx, c \in Idx :
            grid[r][c] # "" => grid'[r][c] = grid[r][c] ]_vars

\* two placed words share a cell
C27_Witness ==
    /\ Len(placedWords) = 2
    /\ CellsOf(placedWords[1]) \cap CellsOf(placedWords[2]) # {}
    /\ placedWords[1].positions # placedWords[2].positions
    /\ pc = "done"

\* C28: no two entries of placedWords have the same position sequence.
C28_NoWordOnTopOfAnother ==
    \A j \in DOMAIN placedWords, k \in DOMAIN placedWords :
        j # k => placedWords[j].positions # placedWords[k].positions


(***************************************************************************)
(* Properties of the module-level puzzle list of main.js.                  *)
(***************************************************************************)
\* C29: generatedPuzzles is never a partly built list: it changes only when
\* an invocation of create-puzzles has handled all its topics and publishes its
\* whole list (this one at its return, another one while this one is
\* suspended), so it is always the initial empty list or a finished
\* invocation's list; an invocation that returns early or throws leaves it
\* alone; and create-pdf fails with 'No puzzles available' exactly when it
\* finds the list empty.
C29_SharedListNeverPartial ==
    /\ [](\/ generatedPuzzles \in PriorBatches \cup OtherBatches
          \/ /\ cppc = "done"
             /\ "puzzles" \in DOMAIN cpResult
             /\ generatedPuzzles = cpResult.puzzles)
    /\ [][ generatedPuzzles' # generatedPuzzles =>
             \/ /\ cppc = "for"
                /\ cppc' = "done"
                /\ Len(topicOutcomes) = Len(subthemes)
                /\ generatedPuzzles' = builtPuzzles
                /\ generatedPuzzles' = cpResult'.puzzles
             \/ /\ cppc = "await"
                /\ cppc' = "await"
                /\ generatedPuzzles' \in OtherBatches ]_vars
    /\ [][ (cppc = "start" /\ cppc' \in {"done", "thrown"}) =>
             generatedPuzzles' = generatedPuzzles ]_vars
    /\ [][ pdfResult' # pdfResult =>
             /\ Len(generatedPuzzles) = 0 => pdfResult'.success = FALSE
             /\ (Len(generatedPuzzles) = 0) <=> (pdfResult'.error = "No puzzles available") ]_vars

\* create-pdf ran while the handler was suspended with one puzzle built: it
\* found the list an earlier invocation had published
C29_Witness ==
    /\ cppc = "await"
    /\ Len(builtPuzzles) = 1
    /\ generatedPuzzles \in PriorBatches
    /\ generatedPuzzles # <<>>
    /\ generatedPuzzles # builtPuzzles
    /\ pdfResult = [success |-> TRUE, error |-> ""]

(***************************************************************************)
(* Properties of the 'chunk' events of 'generate-word-list'.               *)
(***************************************************************************)
ChunkData == LET chunks == SelectSeq(events, LAMBDA e : e.type = "chunk")
             IN  [k \in DOMAIN chunks |-> chunks[k].data]

RECURSIVE Concat(_)
Concat(parts) == IF parts = <<>> THEN <<>> ELSE Head(parts) \o Concat(Tail(parts))

\* C30: there is one 'chunk' event per accepted puzzle, in puzzle order,
\* whose data is the puzzle's words joined by commas, after a '|' for every
\* puzzle but the first; a successful invocation sent exactly numPuzzles of
\* them, and the data of its 'end' event and the returned wordList are their
\* concatenation; no chunk is sent for a puzzle whose allocation failed.
C30_ChunksMakeTheWordList ==
    /\ Len(ChunkData) = Len(puzzles)
    /\ Len(ChunkData) = puzzleIndex
    /\ \A k \in DOMAIN ChunkData :
          ChunkData[k] = (IF k > 1 THEN <<"|">> ELSE <<>>) \o join(puzzles[k], <<",">>)
    /\ wordList = Concat(ChunkData)
    /\ (wlpc = "done" /\ result.success) =>
          /\ Len(ChunkData) = numPuzzles
          /\ result.wordList = Concat(ChunkData)
          /\ events[Len(events)].type = "end"
          /\ events[Len(events)].data = Concat(ChunkData)
    /\ (wlpc = "done" /\ ~result.success) => Len(ChunkData) < numPuzzles \/ ~templateOk

\* a successful run of three puzzles
C30_Witness ==
    /\ wlpc = "done"
    /\ result.success
    /\ numPuzzles = 3
    /\ Len(ChunkData) = 3
    /\ ChunkData[2][1] = "|"

=============================================================================
